---- MODULE Spec2Model ----
(* Verification model of src/utils/core_utils.py: the fold orchestrator     *)
(* (_step), the training step (_train_loop_survival), the evaluation step   *)
(* (_summary), the metric engine (_calculate_metrics) and the batch         *)
(* unpacker (_unpack_data).                                                 *)
EXTENDS Integers, Sequences, FiniteSets, TLC

\* ------------------------------------------------------------------------
\* Bounds of the model
\* ------------------------------------------------------------------------
MaxEpochs == 3
MaxC == 2
MaxN == 3
MaxB == 2
MaxG == 3
MaxBatches == 2
MaxSamples == 3
MaxK == 4

\* ------------------------------------------------------------------------
\* State
\* ------------------------------------------------------------------------
VARIABLES
    \* ---- _step ----
    pc,               \* position inside _step
    max_epochs,       \* args.max_epochs
    miss,             \* args.miss
    epoch,            \* next value of the loop variable of line 649
    model,            \* the parameters held by the model object
    max_cindex,       \* args.max_cindex
    max_cindex_epoch, \* args.max_cindex_epoch
    best_file,        \* model_best_s{cur}.pth
    final_file,       \* s_{cur}_checkpoint.pth
    results_file,     \* split_{cur}_results.pkl
    results_dict,     \* local results_dict of _step
    val,              \* locals val_cindex, val_cindex_ipcw, val_BS, val_IBS, val_iauc, total_loss
    evals,            \* c-index observed for each (parameters, miss) evaluated so far
    entry_max_cindex, \* history: args.max_cindex when _step was entered
    hist,             \* history: one record per finished epoch
    post,             \* history: what _step did after the epoch loop
    ret,              \* value returned by _step
    \* ---- _calculate_metrics ----
    mpc,              \* position inside _calculate_metrics
    m_in,             \* the arguments of the call
    which_times,      \* which_times_to_eval_at has been built
    f,                \* all_risk_scores, all_censorships, all_event_times after lines 451-454
    c_index,          \* local c_index
    m_vals,           \* locals c_index_ipcw, BS, IBS, iauc
    m_calls,          \* history: the library calls made, with the arrays they were given
    m_ret,            \* value returned by _calculate_metrics
    \* ---- _unpack_data ----
    upc,              \* position of the call of _unpack_data
    u_format,         \* omics_format
    u_data,           \* the batch
    u_out,            \* what _unpack_data returned or raised
    \* ---- _train_loop_survival ----
    tpc,              \* position inside _train_loop_survival
    t_cfg,            \* omics_format, args.gamma, args.sigma, number of batches of the loader
    batch_idx,        \* next value of the loop variable of line 381
    total_loss,       \* local total_loss
    t_arrays,         \* length of all_risk_scores, all_censorships, all_event_times, all_clinical_data
    model_calls,      \* invocations of the model
    opt_steps,        \* optimizer.step() calls
    t_batch,          \* the last batch: its losses, the value backward() ran on, the value logged
    t_lines,          \* lines written to log_file
    t_out,            \* what _train_loop_survival returned or raised
    \* ---- _summary ----
    spc,              \* position inside _summary
    s_cfg,            \* omics_format, miss, the slide_id column of the loader's metadata
    count,            \* local count
    s_arrays,         \* the all_* lists
    s_calls,          \* the input_args of every invocation of the model
    s_samples,        \* history: the fields of each sample, in loader order
    patient_results,  \* local patient_results
    s_out,            \* what _summary returned or raised
    \* ---- the concordance call of lines 415 and 457 ----
    cpc,              \* position of the call
    ci_in,            \* all_censorships, all_event_times, all_risk_scores
    ci_out            \* what concordance_index_censored returned or raised

stepVars == <<pc, max_epochs, miss, epoch, model, max_cindex, max_cindex_epoch,
              best_file, final_file, results_file, results_dict, val, evals,
              entry_max_cindex, hist, post, ret>>

metricVars == <<mpc, m_in, which_times, f, c_index, m_vals, m_calls, m_ret>>

unpackVars == <<upc, u_format, u_data, u_out>>
trainVars == <<tpc, t_cfg, batch_idx, total_loss, t_arrays, model_calls, opt_steps,
               t_batch, t_lines, t_out>>

sumVars == <<spc, s_cfg, count, s_arrays, s_calls, s_samples, patient_results, s_out>>

cindexVars == <<cpc, ci_in, ci_out>>

nonStepVars == <<metricVars, unpackVars, trainVars, sumVars, cindexVars>>
nonMetricVars == <<stepVars, unpackVars, trainVars, sumVars, cindexVars>>
nonUnpackVars == <<stepVars, metricVars, trainVars, sumVars, cindexVars>>
nonTrainVars == <<stepVars, metricVars, unpackVars, sumVars, cindexVars>>
nonSumVars == <<stepVars, metricVars, unpackVars, trainVars, cindexVars>>
nonCIndexVars == <<stepVars, metricVars, unpackVars, trainVars, sumVars>>

vars == <<stepVars, metricVars, unpackVars, trainVars, sumVars, cindexVars>>

\* ------------------------------------------------------------------------
\* Values
\* ------------------------------------------------------------------------
CIndexVals == 0..MaxC
NoMiss == "None"
MissVals == {NoMiss, "P", "G"}

\* Model parameters: the run that produced them and how many epochs of this
\* _step call have trained them.
Params(run, v) == [run |-> run, v |-> v]
InitialParams == Params("this", 0)
NoParams == Params("none", 0)
EarlierParams == Params("earlier", 0)

NoFile == [exists |-> FALSE, content |-> NoParams]
FileOf(content) == [exists |-> TRUE, content |-> content]

\* What _summary returns for given parameters and miss flag: the
\* patient-results mapping and the metrics are functions of (parameters, miss).
PatientResults(p, m) == <<"patient_results", p, m>>
Metric(name, p, m) == <<name, p, m>>
NoValue == <<"unset">>

SummaryResult(p, m, c) ==
    [results_dict |-> PatientResults(p, m),
     val_cindex |-> c,
     val_cindex_ipcw |-> Metric("c_index_ipcw", p, m),
     val_BS |-> Metric("BS", p, m),
     val_IBS |-> Metric("IBS", p, m),
     val_iauc |-> Metric("iauc", p, m),
     total_loss |-> Metric("total_loss", p, m)]

ValOf(s) == [val_cindex |-> s.val_cindex,
             val_cindex_ipcw |-> s.val_cindex_ipcw,
             val_BS |-> s.val_BS,
             val_IBS |-> s.val_IBS,
             val_iauc |-> s.val_iauc,
             total_loss |-> s.total_loss]

NoVal == [val_cindex |-> 0, val_cindex_ipcw |-> NoValue, val_BS |-> NoValue,
          val_IBS |-> NoValue, val_iauc |-> NoValue, total_loss |-> NoValue]

\* The c-indexes an evaluation of (p, m) can produce: evaluation is
\* deterministic (model.eval(), torch.no_grad()), so a repeated evaluation of
\* the same parameters under the same flag gives the same value.
PossibleCIndex(p, m) ==
    IF \E e \in evals : e.p = p /\ e.m = m
    THEN {e.c : e \in {x \in evals : x.p = p /\ x.m = m}}
    ELSE CIndexVals

\* ------------------------------------------------------------------------
\* _step
\* ------------------------------------------------------------------------
StepInit ==
    /\ pc = "loop"
    /\ max_epochs \in 0..MaxEpochs
    /\ miss \in MissVals
    /\ epoch = 0
    /\ model = InitialParams
    /\ max_cindex \in CIndexVals
    /\ max_cindex_epoch \in {0, MaxEpochs - 1}
    /\ best_file \in {NoFile, FileOf(EarlierParams)}
    /\ final_file = NoFile
    /\ results_file = NoValue
    /\ results_dict = NoValue
    /\ val = NoVal
    /\ evals = {}
    /\ entry_max_cindex = max_cindex
    /\ hist = <<>>
    /\ post = <<>>
    /\ ret = NoValue

StepIdle ==
    /\ pc = "idle"
    /\ max_epochs = 0
    /\ miss = NoMiss
    /\ epoch = 0
    /\ model = InitialParams
    /\ max_cindex = 0
    /\ max_cindex_epoch = 0
    /\ best_file = NoFile
    /\ final_file = NoFile
    /\ results_file = NoValue
    /\ results_dict = NoValue
    /\ val = NoVal
    /\ evals = {}
    /\ entry_max_cindex = 0
    /\ hist = <<>>
    /\ post = <<>>
    /\ ret = NoValue

\* The comparison of line 669.
IsBestStrict(c, best) == c > best
IsBest(c, best) == c >= best

\* _train_loop_survival as _step sees it: the optimizer has stepped, the
\* parameters are new.
Trained(p) == Params(p.run, p.v + 1)

\* One iteration of the epoch loop, lines 649-673.
Epoch ==
    /\ pc = "loop"
    /\ epoch < max_epochs
    /\ LET p == Trained(model) IN
       \E c \in PossibleCIndex(p, miss) :
          LET s == SummaryResult(p, miss, c) IN
          /\ model' = p
          /\ results_dict' = s.results_dict
          /\ val' = ValOf(s)
          /\ evals' = evals \cup {[p |-> p, m |-> miss, c |-> c]}
          /\ IF IsBest(c, max_cindex)
             THEN /\ max_cindex' = c
                  /\ max_cindex_epoch' = epoch
                  /\ best_file' = FileOf(p)
                  /\ results_file' = s.results_dict
             ELSE UNCHANGED <<max_cindex, max_cindex_epoch, best_file, results_file>>
          /\ hist' = Append(hist, [epoch |-> epoch, c |-> c, before |-> max_cindex, params |-> p])
    /\ epoch' = epoch + 1
    /\ UNCHANGED <<pc, max_epochs, miss, final_file, entry_max_cindex, post, ret>>
    /\ UNCHANGED nonStepVars

\* Line 677: the loop is over, the final checkpoint is written.
SaveFinal ==
    /\ pc = "loop"
    /\ epoch = max_epochs
    /\ final_file' = FileOf(model)
    /\ post' = Append(post, [ev |-> "save_final", params |-> model, miss |-> NoMiss])
    /\ pc' = "eval_final"
    /\ UNCHANGED <<max_epochs, miss, epoch, model, max_cindex, max_cindex_epoch, best_file,
                   results_file, results_dict, val, evals, entry_max_cindex, hist, ret>>
    /\ UNCHANGED nonStepVars

\* Line 679: _summary on the model as trained, miss left at its default.
EvalFinal ==
    /\ pc = "eval_final"
    /\ \E c \in PossibleCIndex(model, NoMiss) :
          LET s == SummaryResult(model, NoMiss, c) IN
          /\ results_dict' = s.results_dict
          /\ val' = ValOf(s)
          /\ evals' = evals \cup {[p |-> model, m |-> NoMiss, c |-> c]}
    /\ post' = Append(post, [ev |-> "summary", params |-> model, miss |-> NoMiss])
    /\ pc' = "load_best"
    /\ UNCHANGED <<max_epochs, miss, epoch, model, max_cindex, max_cindex_epoch, best_file,
                   final_file, results_file, entry_max_cindex, hist, ret>>
    /\ UNCHANGED nonStepVars

\* (variant: the checkpoint is read but never put into the model)
LoadBestNotApplied ==
    /\ pc = "load_best"
    /\ IF best_file.exists
       THEN /\ model' = model
            /\ post' = Append(post, [ev |-> "load_best", params |-> best_file.content, miss |-> NoMiss])
            /\ pc' = "eval_best"
       ELSE /\ pc' = "raised"
            /\ UNCHANGED <<model, post>>
    /\ UNCHANGED <<max_epochs, miss, epoch, max_cindex, max_cindex_epoch, best_file, final_file,
                   results_file, results_dict, val, evals, entry_max_cindex, hist, ret>>
    /\ UNCHANGED nonStepVars

\* Lines 694-695: torch.load of the best checkpoint and load_state_dict.
LoadBest ==
    /\ pc = "load_best"
    /\ IF best_file.exists
       THEN /\ model' = best_file.content
            /\ post' = Append(post, [ev |-> "load_best", params |-> best_file.content, miss |-> NoMiss])
            /\ pc' = "eval_best"
       ELSE /\ pc' = "raised"
            /\ UNCHANGED <<model, post>>
    /\ UNCHANGED <<max_epochs, miss, epoch, max_cindex, max_cindex_epoch, best_file, final_file,
                   results_file, results_dict, val, evals, entry_max_cindex, hist, ret>>
    /\ UNCHANGED nonStepVars

\* (variant: every value of the last _summary goes to "_")
EvalBestDiscarded ==
    /\ pc = "eval_best"
    /\ \E c \in PossibleCIndex(model, NoMiss) :
          /\ val' = val
          /\ evals' = evals \cup {[p |-> model, m |-> NoMiss, c |-> c]}
    /\ post' = Append(post, [ev |-> "summary", params |-> model, miss |-> NoMiss])
    /\ pc' = "return"
    /\ UNCHANGED <<max_epochs, miss, epoch, model, max_cindex, max_cindex_epoch, best_file,
                   final_file, results_file, results_dict, entry_max_cindex, hist, ret>>
    /\ UNCHANGED nonStepVars

\* Line 696: _summary on the reloaded parameters; the mapping goes to "_".
EvalBest ==
    /\ pc = "eval_best"
    /\ \E c \in PossibleCIndex(model, NoMiss) :
          LET s == SummaryResult(model, NoMiss, c) IN
          /\ val' = ValOf(s)
          /\ evals' = evals \cup {[p |-> model, m |-> NoMiss, c |-> c]}
    /\ post' = Append(post, [ev |-> "summary", params |-> model, miss |-> NoMiss])
    /\ pc' = "return"
    /\ UNCHANGED <<max_epochs, miss, epoch, model, max_cindex, max_cindex_epoch, best_file,
                   final_file, results_file, results_dict, entry_max_cindex, hist, ret>>
    /\ UNCHANGED nonStepVars

\* Line 711.
Return ==
    /\ pc = "return"
    /\ ret' = <<results_dict,
                <<max_cindex, val.val_cindex_ipcw, val.val_BS, val.val_IBS, val.val_iauc, val.total_loss>> >>
    /\ pc' = "done"
    /\ UNCHANGED <<max_epochs, miss, epoch, model, max_cindex, max_cindex_epoch, best_file,
                   final_file, results_file, results_dict, val, evals, entry_max_cindex, hist, post>>
    /\ UNCHANGED nonStepVars

\* An exception of _train_loop_survival or _summary propagates out of _step
\* (nothing in _step catches): the call ends where it stands.  A training
\* step that raises may already have stepped the optimizer.
StepRaises ==
    /\ \/ /\ pc = "loop"
          /\ epoch < max_epochs
          /\ model' \in {model, Trained(model)}
       \/ /\ pc \in {"eval_final", "eval_best"}
          /\ model' = model
    /\ pc' = "raised"
    /\ UNCHANGED <<max_epochs, miss, epoch, max_cindex, max_cindex_epoch, best_file, final_file,
                   results_file, results_dict, val, evals, entry_max_cindex, hist, post, ret>>
    /\ UNCHANGED nonStepVars

StepNext == Epoch \/ SaveFinal \/ EvalFinal \/ LoadBest \/ EvalBest \/ Return \/ StepRaises


\* ------------------------------------------------------------------------
\* _calculate_metrics
\* ------------------------------------------------------------------------
\* A risk score is a float that may be NaN.
NaN == [nan |-> TRUE, x |-> 0]
Num(x) == [nan |-> FALSE, x |-> x]
RiskVals == {NaN, Num(1), Num(2)}
CensVals == {0, 1}
TimeVals == {1, 2}

\* dataset_factory.bins has BinsUsed entries when line 448 can index it.
BinsUsed == 3
BinsVals == {BinsUsed - 1, BinsUsed}

\* np.argwhere(np.isnan(a)) of a one-dimensional array.
ArgwhereIsNan(a) == {i \in 1..Len(a) : a[i].nan}

\* np.delete(a, idx) of a one-dimensional array: a without the positions idx.
RECURSIVE NpDeleteFrom(_, _, _)
NpDeleteFrom(a, idx, k) ==
    IF k > Len(a) THEN <<>>
    ELSE (IF k \in idx THEN <<>> ELSE <<a[k]>>) \o NpDeleteFrom(a, idx, k + 1)

NpDelete(a, idx) == NpDeleteFrom(a, idx, 1)

\* (variant: the NaN positions are looked up in the array already filtered)
FilterArraysReread(in) ==
    LET risk == NpDelete(in.risk, ArgwhereIsNan(in.risk)) IN
    [risk |-> risk,
     cens |-> NpDelete(in.cens, ArgwhereIsNan(risk)),
     time |-> NpDelete(in.time, ArgwhereIsNan(risk))]

\* Lines 451-454.
FilterArrays(in) ==
    LET original_risk_scores == in.risk IN
    [risk |-> NpDelete(in.risk, ArgwhereIsNan(original_risk_scores)),
     cens |-> NpDelete(in.cens, ArgwhereIsNan(original_risk_scores)),
     time |-> NpDelete(in.time, ArgwhereIsNan(original_risk_scores))]

\* (1 - all_censorships).astype(bool)
EventIndicator(cens) == [i \in 1..Len(cens) |-> (1 - cens[i]) # 0]

\* sksurv's concordance_index_censored as called on lines 415 and 457.
\* It raises on arrays of different lengths, on fewer than two samples, on all samples censored and when no
\* event has a sample at the same or a later time; otherwise it is
\* (concordant + 0.5 * tied) / comparable, NaN when no pair is comparable.
ComparablePairs(ev, t) ==
    {pr \in (1..Len(t)) \X (1..Len(t)) :
        /\ pr[1] # pr[2]
        /\ ev[pr[1]]
        /\ \/ t[pr[2]] > t[pr[1]]
           \/ t[pr[2]] = t[pr[1]] /\ ~ev[pr[2]]}

\* (variant: a pair counts as concordant when the later sample has the higher estimate)
ConcordanceIndexReversed(ev, t, est) ==
    IF \/ Len(ev) # Len(t)
       \/ Len(est) # Len(t)
       \/ Len(t) < 2
       \/ ~(\E i \in 1..Len(t) : ev[i])
       \/ ~(\E i \in 1..Len(t) : ev[i] /\ \E k \in 1..Len(t) : k # i /\ t[k] >= t[i])
    THEN [raised |-> TRUE, nan |-> FALSE, num |-> 0, den |-> 1]
    ELSE LET pairs == ComparablePairs(ev, t)
             con == Cardinality({pr \in pairs : est[pr[2]].x > est[pr[1]].x})
             tied == Cardinality({pr \in pairs : est[pr[2]].x = est[pr[1]].x})
         IN IF pairs = {}
            THEN [raised |-> FALSE, nan |-> TRUE, num |-> 0, den |-> 1]
            ELSE [raised |-> FALSE, nan |-> FALSE, num |-> 2 * con + tied, den |-> 2 * Cardinality(pairs)]

ConcordanceIndexCensored(ev, t, est) ==
    IF \/ Len(ev) # Len(t)
       \/ Len(est) # Len(t)
       \/ Len(t) < 2
       \/ ~(\E i \in 1..Len(t) : ev[i])
       \/ ~(\E i \in 1..Len(t) : ev[i] /\ \E k \in 1..Len(t) : k # i /\ t[k] >= t[i])
    THEN [raised |-> TRUE, nan |-> FALSE, num |-> 0, den |-> 1]
    ELSE LET pairs == ComparablePairs(ev, t)
             con == Cardinality({pr \in pairs : est[pr[2]].x < est[pr[1]].x})
             tied == Cardinality({pr \in pairs : est[pr[2]].x = est[pr[1]].x})
         IN IF pairs = {}
            THEN [raised |-> FALSE, nan |-> TRUE, num |-> 0, den |-> 1]
            ELSE [raised |-> FALSE, nan |-> FALSE, num |-> 2 * con + tied, den |-> 2 * Cardinality(pairs)]

Zero == "0."
NoCIndex == [raised |-> FALSE, nan |-> FALSE, num |-> 0, den |-> 1]
NoFiltered == [risk |-> <<>>, cens |-> <<>>, time |-> <<>>]
ZeroVals == [c_index_ipcw |-> Zero, BS |-> Zero, IBS |-> Zero, iauc |-> Zero]

MetricInputs ==
    UNION {[risk : [1..n -> RiskVals], cens : [1..n -> CensVals], time : [1..n -> TimeVals],
            by_bin : {[i \in 1..n |-> i]}, nbins : BinsVals] : n \in 0..MaxN}

MetricInit ==
    /\ mpc = "times"
    /\ m_in \in MetricInputs
    /\ which_times = FALSE
    /\ f = NoFiltered
    /\ c_index = NoCIndex
    /\ m_vals = ZeroVals
    /\ m_calls = <<>>
    /\ m_ret = NoValue

MetricIdle ==
    /\ mpc = "idle"
    /\ m_in = [risk |-> <<>>, cens |-> <<>>, time |-> <<>>, by_bin |-> <<>>, nbins |-> BinsUsed]
    /\ which_times = FALSE
    /\ f = NoFiltered
    /\ c_index = NoCIndex
    /\ m_vals = ZeroVals
    /\ m_calls = <<>>
    /\ m_ret = NoValue

Call(fn, test, estimate) == [fn |-> fn, cens |-> test.cens, time |-> test.time, estimate |-> estimate]

\* Lines 446-448: bins_original[1] and bins_original[2] are read outside any try.
EvalTimes ==
    /\ mpc = "times"
    /\ IF m_in.nbins >= BinsUsed
       THEN which_times' = TRUE /\ mpc' = "filter"
       ELSE which_times' = FALSE /\ mpc' = "raised"
    /\ UNCHANGED <<m_in, f, c_index, m_vals, m_calls, m_ret>>
    /\ UNCHANGED nonMetricVars

\* Lines 451-454.
Filter ==
    /\ mpc = "filter"
    /\ f' = FilterArrays(m_in)
    /\ mpc' = "cindex"
    /\ UNCHANGED <<m_in, which_times, c_index, m_vals, m_calls, m_ret>>
    /\ UNCHANGED nonMetricVars

\* Lines 457-458: the concordance call is outside any try.
CIndex ==
    /\ mpc = "cindex"
    /\ LET r == ConcordanceIndexCensored(EventIndicator(f.cens), f.time, f.risk) IN
       /\ m_calls' = Append(m_calls, Call("concordance_index_censored", f, f.risk))
       /\ IF r.raised
          THEN mpc' = "raised" /\ UNCHANGED c_index
          ELSE mpc' = "surv" /\ c_index' = r
    /\ m_vals' = ZeroVals
    /\ UNCHANGED <<m_in, which_times, f, m_ret>>
    /\ UNCHANGED nonMetricVars

\* Lines 461-465: Surv.from_arrays; on failure the five values are returned at once.
SurvTest ==
    /\ mpc = "surv"
    /\ m_calls' = Append(m_calls, Call("Surv.from_arrays", f, <<>>))
    /\ \/ mpc' = "ipcw" /\ UNCHANGED m_ret
       \/ /\ mpc' = "returned"
          /\ m_ret' = <<c_index, m_vals.c_index_ipcw, m_vals.BS, m_vals.IBS, m_vals.iauc>>
    /\ UNCHANGED <<m_in, which_times, f, c_index, m_vals>>
    /\ UNCHANGED nonMetricVars

\* Lines 468-472.
Ipcw ==
    /\ mpc = "ipcw"
    /\ m_calls' = Append(m_calls, Call("concordance_index_ipcw", f, f.risk))
    /\ \E v \in {"value", Zero} : m_vals' = [m_vals EXCEPT !.c_index_ipcw = v]
    /\ mpc' = "brier"
    /\ UNCHANGED <<m_in, which_times, f, c_index, m_ret>>
    /\ UNCHANGED nonMetricVars

\* What a guarded sksurv metric can give for an estimate with one row per
\* entry of all_risk_by_bin_scores: it raises, and the except branch puts 0,
\* when the estimate and survival_test differ in length.
GuardedOutcomes(estimate) ==
    IF Len(estimate) = Len(f.time) THEN {"value", Zero} ELSE {Zero}

\* Lines 475-479.
Brier ==
    /\ mpc = "brier"
    /\ m_calls' = Append(m_calls, Call("brier_score", f, m_in.by_bin))
    /\ \E v \in GuardedOutcomes(m_in.by_bin) : m_vals' = [m_vals EXCEPT !.BS = v]
    /\ mpc' = "ibs"
    /\ UNCHANGED <<m_in, which_times, f, c_index, m_ret>>
    /\ UNCHANGED nonMetricVars

\* Lines 482-486.
IntegratedBrier ==
    /\ mpc = "ibs"
    /\ m_calls' = Append(m_calls, Call("integrated_brier_score", f, m_in.by_bin))
    /\ \E v \in GuardedOutcomes(m_in.by_bin) : m_vals' = [m_vals EXCEPT !.IBS = v]
    /\ mpc' = "iauc"
    /\ UNCHANGED <<m_in, which_times, f, c_index, m_ret>>
    /\ UNCHANGED nonMetricVars

\* Lines 489-495.
Iauc ==
    /\ mpc = "iauc"
    /\ m_calls' = Append(m_calls, Call("cumulative_dynamic_auc", f, m_in.by_bin))
    /\ \E v \in GuardedOutcomes(m_in.by_bin) :
          /\ m_vals' = [m_vals EXCEPT !.iauc = v]
          /\ m_ret' = <<c_index, m_vals.c_index_ipcw, m_vals.BS, m_vals.IBS, v>>
    /\ mpc' = "returned"
    /\ UNCHANGED <<m_in, which_times, f, c_index>>
    /\ UNCHANGED nonMetricVars

MetricNext == EvalTimes \/ Filter \/ CIndex \/ SurvTest \/ Ipcw \/ Brier \/ IntegratedBrier \/ Iauc


\* ------------------------------------------------------------------------
\* _unpack_data
\* ------------------------------------------------------------------------
SupportedFormats == {"gene", "groups", "pathways"}
OmicsFormats == SupportedFormats \cup {"Gene", "paths"}

\* data[k] with Python's zero-based index.
At(data, k) == data[k + 1]

\* A one-dimensional tensor of n entries, all v.
Vec(n, v) == [i \in 1..n |-> v]
\* The length of the tensor of pathway group g (pathways differ in size).
GroupDim(g) == g

\* omic.unsqueeze(0): a matrix with the tensor as its only row.
Unsqueeze0(omic) == <<omic>>
\* torch.cat((a, b), dim=0): the rows of a, then the rows of b.
Cat0(a, b) == a \o b

NoneMask == [none |-> TRUE, t |-> <<>>]
Tensor(t) == [none |-> FALSE, t |-> t]

\* (variant: the new row is put in front of the rows stacked so far)
PathwayStepPrepend(data_omics, idx, idy, omic) ==
    IF idx = 0
    THEN Append(data_omics, Unsqueeze0(omic))
    ELSE [data_omics EXCEPT ![idy + 1] = Cat0(Unsqueeze0(omic), @)]

\* Lines 243-248: one pass of the inner loop body.
PathwayStep(data_omics, idx, idy, omic) ==
    IF idx = 0
    THEN Append(data_omics, Unsqueeze0(omic))
    ELSE [data_omics EXCEPT ![idy + 1] = Cat0(@, Unsqueeze0(omic))]

\* Lines 240-248: the two nested loops, from (idx, idy) on.
RECURSIVE PathwayLoop(_, _, _, _)
PathwayLoop(items, data_omics, idx, idy) ==
    IF idx >= Len(items) THEN data_omics
    ELSE IF idy >= Len(At(items, idx)) THEN PathwayLoop(items, data_omics, idx + 1, 0)
    ELSE PathwayLoop(items, PathwayStep(data_omics, idx, idy, At(At(items, idx), idy)), idx, idy + 1)

Raised(type, args) == [raised |-> TRUE, exc |-> [type |-> type, args |-> args]]
NoExc == [type |-> "none", args |-> <<>>]

Unpacked(wsi, mask, y, t, c, omics, clinical) ==
    [raised |-> FALSE, exc |-> NoExc, data_WSI |-> wsi, mask |-> mask, y_disc |-> y,
     event_time |-> t, censor |-> c, data_omics |-> omics, clinical_data_list |-> clinical]

\* (variant: a tag that is not recognised is unpacked with the gene layout)
UnpackDataLenient(omics_format, data) ==
    IF omics_format = "groups"
    THEN Unpacked(At(data, 0), Tensor(At(data, 11)), At(data, 7), At(data, 8), At(data, 9),
                  <<At(data, 1), At(data, 2), At(data, 3), At(data, 4), At(data, 5), At(data, 6)>>,
                  At(data, 10))
    ELSE IF omics_format = "pathways"
    THEN Unpacked(At(data, 0),
                  IF At(data, 6)[1][1] = 1 THEN NoneMask ELSE Tensor(At(data, 6)),
                  At(data, 2), At(data, 3), At(data, 4),
                  PathwayLoop(At(data, 1), <<>>, 0, 0),
                  At(data, 5))
    ELSE Unpacked(At(data, 0), NoneMask, At(data, 2), At(data, 3), At(data, 4), At(data, 1), At(data, 5))

\* Lines 216-262.
UnpackData(omics_format, data) ==
    IF omics_format = "gene"
    THEN Unpacked(At(data, 0), NoneMask, At(data, 2), At(data, 3), At(data, 4), At(data, 1), At(data, 5))
    ELSE IF omics_format = "groups"
    THEN Unpacked(At(data, 0), Tensor(At(data, 11)), At(data, 7), At(data, 8), At(data, 9),
                  <<At(data, 1), At(data, 2), At(data, 3), At(data, 4), At(data, 5), At(data, 6)>>,
                  At(data, 10))
    ELSE IF omics_format = "pathways"
    THEN Unpacked(At(data, 0),
                  IF At(data, 6)[1][1] = 1 THEN NoneMask ELSE Tensor(At(data, 6)),
                  At(data, 2), At(data, 3), At(data, 4),
                  PathwayLoop(At(data, 1), <<>>, 0, 0),
                  At(data, 5))
    ELSE Raised("ValueError", <<"Unsupported omics type:", omics_format>>)

\* The batches a loader yields, by layout.
SampleIds(B) == [b \in 1..B |-> b]
MaskVals == {<< <<1>> >>, << <<0>> >>}

GeneBatches(B) ==
    {<< <<"wsi", B>>, <<"omics", B>>, SampleIds(B), SampleIds(B), SampleIds(B), <<"clinical", B>> >>}

GroupsBatches(B) ==
    {<< <<"wsi", B>>, <<"omic", 1, B>>, <<"omic", 2, B>>, <<"omic", 3, B>>, <<"omic", 4, B>>,
        <<"omic", 5, B>>, <<"omic", 6, B>>, SampleIds(B), SampleIds(B), SampleIds(B),
        <<"clinical", B>>, m >> : m \in MaskVals}

\* One sample's pathway tensors: group g is a tensor of GroupDim(g) entries.
PathwaySamples(G) ==
    {[g \in 1..G |-> Vec(GroupDim(g), bits[g])] : bits \in [1..G -> {0, 1}]}

PathwayBatches(B, G) ==
    {<< <<"wsi", B>>, items, SampleIds(B), SampleIds(B), SampleIds(B), <<"clinical", B>>, m >> :
        items \in [1..B -> PathwaySamples(G)], m \in MaskVals}

BatchesOf(omics_format, B, G) ==
    IF omics_format = "groups" THEN GroupsBatches(B)
    ELSE IF omics_format = "pathways" THEN PathwayBatches(B, G)
    ELSE GeneBatches(B)

NoOut == [raised |-> FALSE, exc |-> NoExc]

UnpackInit ==
    /\ upc = "call"
    /\ u_format \in OmicsFormats
    /\ \E B \in 1..MaxB, G \in 1..MaxG :
          /\ u_format # "pathways" => G = 1
          /\ u_data \in BatchesOf(u_format, B, G)
    /\ u_out = NoOut

UnpackIdle ==
    /\ upc = "idle"
    /\ u_format = "gene"
    /\ u_data = <<>>
    /\ u_out = NoOut

\* One call of _unpack_data.
Unpack ==
    /\ upc = "call"
    /\ u_out' = UnpackData(u_format, u_data)
    /\ upc' = IF u_out'.raised THEN "raised" ELSE "returned"
    /\ UNCHANGED <<u_format, u_data>>
    /\ UNCHANGED nonUnpackVars


\* ------------------------------------------------------------------------
\* _process_data_and_forward and _train_loop_survival
\* ------------------------------------------------------------------------
GammaVals == {1, 2}
SigmaVals == {1, 3}

\* The losses of one batch: the survival loss of line 388 and the four loss
\* terms of the model output; every term alone, none and all together.
LossCases ==
    {[j \in 1..5 |-> 0], [j \in 1..5 |-> 1]}
        \cup {[j \in 1..5 |-> IF j = i THEN 1 ELSE 0] : i \in 1..5}

\* The 5-tuple the model returns: h[0] .. h[4] of line 386.
ModelOutput(lc) == << "logits", lc[2], lc[3], lc[4], lc[5] >>

\* Lines 282-305: the batch is unpacked before anything else; out is what
\* the model gives when it is invoked.
ProcessDataAndForward(omics_format, data, out) ==
    LET u == UnpackData(omics_format, data) IN
    IF u.raised THEN [raised |-> TRUE, exc |-> u.exc, calls |-> 0, out |-> <<>>, y_disc |-> <<>>]
    ELSE IF omics_format = "gene" \/ omics_format \in {"groups", "pathways"}
    THEN [raised |-> FALSE, exc |-> NoExc, calls |-> 1, out |-> out, y_disc |-> u.y_disc]
    ELSE [raised |-> TRUE, exc |-> [type |-> "ValueError", args |-> <<"Unsupported omics type:", omics_format>>],
          calls |-> 0, out |-> <<>>, y_disc |-> <<>>]

\* (variant: the two weights are exchanged)
CompositeLossSwapped(loss_surv, h, gamma, sigma) ==
    loss_surv + sigma * At(h, 2) + At(h, 1) + gamma * (At(h, 3) + At(h, 4))

\* Lines 386-390.
CompositeLoss(loss_surv, h, gamma, sigma) ==
    LET IB_loss_proxy == At(h, 1)
        proxy_loss == At(h, 2)
        mimin_total == At(h, 3)
        mimin_loss_total == At(h, 4)
    IN loss_surv + gamma * proxy_loss + IB_loss_proxy + sigma * (mimin_total + mimin_loss_total)

\* A float quotient, kept exact.
Quot(num, den) == [num |-> num, den |-> den]

\* "{:.3f}".format(q) of a non-negative quotient, in thousandths.
Format3(q) == (2 * 1000 * q.num + q.den) \div (2 * q.den)

NoBatch == [seen |-> FALSE, B |-> 1, loss_surv |-> 0, h |-> <<"logits", 0, 0, 0, 0>>,
            loss_value |-> 0, backward |-> Quot(0, 1), logged |-> 0]

TrainInit ==
    /\ tpc = "batch"
    /\ t_cfg \in [omics_format : OmicsFormats, gamma : GammaVals, sigma : SigmaVals,
                  n_batches : 1..MaxBatches]
    /\ batch_idx = 0
    /\ total_loss = 0
    /\ t_arrays = 0
    /\ model_calls = 0
    /\ opt_steps = 0
    /\ t_batch = NoBatch
    /\ t_lines = 0
    /\ t_out = NoOut

TrainIdle ==
    /\ tpc = "idle"
    /\ t_cfg = [omics_format |-> "gene", gamma |-> 1, sigma |-> 1, n_batches |-> 1]
    /\ batch_idx = 0
    /\ total_loss = 0
    /\ t_arrays = 0
    /\ model_calls = 0
    /\ opt_steps = 0
    /\ t_batch = NoBatch
    /\ t_lines = 0
    /\ t_out = NoOut

\* Lines 381-409: one batch of the epoch.
TrainBatch ==
    /\ tpc = "batch"
    /\ batch_idx < t_cfg.n_batches
    /\ \E B \in 1..MaxB, lc \in LossCases :
          LET data == CHOOSE d \in BatchesOf(t_cfg.omics_format, B, 1) : TRUE
              loss_surv == lc[1]
              r == ProcessDataAndForward(t_cfg.omics_format, data, ModelOutput(lc))
          IN
          IF r.raised
          THEN /\ tpc' = "raised"
               /\ t_out' = [raised |-> TRUE, exc |-> r.exc]
               /\ UNCHANGED <<batch_idx, total_loss, t_arrays, model_calls, opt_steps,
                              t_batch, t_lines>>
          ELSE LET loss == CompositeLoss(loss_surv, r.out, t_cfg.gamma, t_cfg.sigma)
                   loss_value == loss
                   normalized == Quot(loss, Len(r.y_disc))
               IN /\ model_calls' = model_calls + r.calls
                  /\ t_arrays' = t_arrays + 1
                  /\ total_loss' = total_loss + loss_value
                  /\ opt_steps' = opt_steps + 1
                  /\ t_lines' = t_lines + 1
                  /\ t_batch' = [seen |-> TRUE, B |-> B, loss_surv |-> loss_surv, h |-> r.out,
                                 loss_value |-> loss_value, backward |-> normalized,
                                 logged |-> Format3(normalized)]
                  /\ batch_idx' = batch_idx + 1
                  /\ UNCHANGED <<tpc, t_out>>
    /\ UNCHANGED t_cfg
    /\ UNCHANGED nonTrainVars

\* Lines 411-421: the epoch loss is averaged, the training c-index computed
\* (concordance_index_censored is not guarded here either) and the summary
\* line written.
TrainEnd ==
    /\ tpc = "batch"
    /\ batch_idx = t_cfg.n_batches
    /\ \/ /\ tpc' = "raised"
          /\ t_out' = [raised |-> TRUE, exc |-> [type |-> "sksurv", args |-> <<>>]]
          /\ UNCHANGED t_lines
       \/ /\ tpc' = "returned"
          /\ t_out' = [raised |-> FALSE, exc |-> NoExc]
          /\ t_lines' = t_lines + 1
    /\ UNCHANGED <<t_cfg, batch_idx, total_loss, t_arrays, model_calls, opt_steps, t_batch>>
    /\ UNCHANGED nonTrainVars

TrainNext == TrainBatch \/ TrainEnd


\* ------------------------------------------------------------------------
\* _summary
\* ------------------------------------------------------------------------
\* Slide identifiers, as sequences of characters.
CasePrefixA == <<"T", "C", "G", "A", "-", "A", "B", "-", "1", "2", "3">>
SlideIdPool ==
    {CasePrefixA \o <<"4", "-", "0", "1", "Z">>,
     CasePrefixA \o <<"4", "-", "0", "2", "Z">>,
     CasePrefixA \o <<"5", "-", "0", "1", "Z">>,
     <<"s", "1">>}

\* Line 593: slide_id[:12].
CaseIdLen == 12
CaseIdOf(slide_id) ==
    IF Len(slide_id) <= CaseIdLen THEN slide_id ELSE SubSeq(slide_id, 1, CaseIdLen)

\* The k-th batch of the validation loader (batch size 1, line 161).
Field(name, k) == <<name, k>>
ValBatch(omics_format, k, m) ==
    IF omics_format = "groups"
    THEN << Field("wsi", k), Field("omic1", k), Field("omic2", k), Field("omic3", k),
            Field("omic4", k), Field("omic5", k), Field("omic6", k),
            <<Field("y", k)>>, <<Field("time", k)>>, <<Field("censor", k)>>,
            <<Field("clinical", k)>>, m >>
    ELSE IF omics_format = "pathways"
    THEN << Field("wsi", k), << <<Field("pathway1", k), Field("pathway2", k)>> >>,
            <<Field("y", k)>>, <<Field("time", k)>>, <<Field("censor", k)>>,
            <<Field("clinical", k)>>, m >>
    ELSE << Field("wsi", k), Field("omics", k),
            <<Field("y", k)>>, <<Field("time", k)>>, <<Field("censor", k)>>,
            <<Field("clinical", k)>> >>

\* torch.zeros_like(x)
ZerosLike(x) == <<"zeros_like", x>>

\* Lines 541-549.
AblateWsi(m, data_WSI) == IF m = "P" THEN ZerosLike(data_WSI) ELSE data_WSI
AblateOmics(m, omics_format, data_omics) ==
    IF m # "G" THEN data_omics
    ELSE IF omics_format = "gene" THEN ZerosLike(data_omics)
    ELSE [i \in 1..Len(data_omics) |-> ZerosLike(data_omics[i])]

\* The model is a function of its keyword arguments (eval mode, no_grad).
ModelLogits(input_args) == << <<"logits", input_args>> >>
\* _calculate_risk, lines 319-322: both results are functions of the logits.
Risk(h) == [i \in 1..Len(h) |-> <<"risk", h[i]>>]
Survival(h) == [i \in 1..Len(h) |-> <<"survival", h[i]>>]

\* np.concatenate(arrays, axis=0)
RECURSIVE NpConcatenate(_)
NpConcatenate(arrays) ==
    IF arrays = <<>> THEN <<>> ELSE Head(arrays) \o NpConcatenate(Tail(arrays))

NoArrays == [all_risk_scores |-> <<>>, all_risk_by_bin_scores |-> <<>>, all_censorships |-> <<>>,
             all_event_times |-> <<>>, all_clinical_data |-> <<>>, all_logits |-> <<>>,
             all_slide_ids |-> <<>>]

SummaryInit ==
    /\ spc = "loop"
    /\ s_cfg \in UNION {[omics_format : OmicsFormats, miss : MissVals,
                         slide_ids : [1..n -> SlideIdPool]] : n \in 1..MaxSamples}
    /\ count = 0
    /\ s_arrays = NoArrays
    /\ s_calls = <<>>
    /\ s_samples = <<>>
    /\ patient_results = <<>>
    /\ s_out = NoOut

SummaryIdle ==
    /\ spc = "idle"
    /\ s_cfg = [omics_format |-> "gene", miss |-> NoMiss, slide_ids |-> <<>>]
    /\ count = 0
    /\ s_arrays = NoArrays
    /\ s_calls = <<>>
    /\ s_samples = <<>>
    /\ patient_results = <<>>
    /\ s_out = NoOut

\* Lines 537-581: one sample of the loader.
SummarySample ==
    /\ spc = "loop"
    /\ count < Len(s_cfg.slide_ids)
    /\ LET k == count + 1
           data == ValBatch(s_cfg.omics_format, k, CHOOSE m \in MaskVals : TRUE)
           u == UnpackData(s_cfg.omics_format, data)
       IN IF u.raised
          THEN /\ spc' = "raised"
               /\ s_out' = [raised |-> TRUE, exc |-> u.exc]
               /\ UNCHANGED <<count, s_arrays, s_calls, s_samples>>
          ELSE IF ~(s_cfg.omics_format = "gene" \/ s_cfg.omics_format \in {"groups", "pathways"})
          THEN /\ spc' = "raised"
               /\ s_out' = [raised |-> TRUE, exc |-> [type |-> "NotImplementedError", args |-> <<>>]]
               /\ UNCHANGED <<count, s_arrays, s_calls, s_samples>>
          ELSE LET input_args == [x_wsi |-> AblateWsi(s_cfg.miss, u.data_WSI),
                                  omics |-> AblateOmics(s_cfg.miss, s_cfg.omics_format, u.data_omics),
                                  return_attn |-> FALSE, y |-> "None", c |-> "None"]
                   h == ModelLogits(input_args)
               IN /\ s_calls' = Append(s_calls, input_args)
                  /\ s_arrays' =
                        [all_risk_scores |-> Append(s_arrays.all_risk_scores, Risk(h)),
                         all_risk_by_bin_scores |-> Append(s_arrays.all_risk_by_bin_scores, Survival(h)),
                         all_censorships |-> Append(s_arrays.all_censorships, u.censor),
                         all_event_times |-> Append(s_arrays.all_event_times, u.event_time),
                         all_clinical_data |-> Append(s_arrays.all_clinical_data, u.clinical_data_list),
                         all_logits |-> Append(s_arrays.all_logits, h),
                         all_slide_ids |-> Append(s_arrays.all_slide_ids, s_cfg.slide_ids[count + 1])]
                  /\ s_samples' = Append(s_samples,
                        [slide_id |-> s_cfg.slide_ids[k], time |-> u.event_time[1],
                         censorship |-> u.censor[1], clinical |-> u.clinical_data_list,
                         logits |-> h[1], risk |-> Risk(h)[1]])
                  /\ count' = count + 1
                  /\ UNCHANGED <<spc, s_out>>
    /\ UNCHANGED <<s_cfg, patient_results>>
    /\ UNCHANGED nonSumVars

\* A dictionary with key k set to v.
DictSet(dict, k, v) ==
    IF \E j \in 1..Len(dict) : dict[j].key = k
    THEN [j \in 1..Len(dict) |-> IF dict[j].key = k THEN [key |-> k, value |-> v] ELSE dict[j]]
    ELSE Append(dict, [key |-> k, value |-> v])

\* (variant: a case id already present keeps its first record)
ResultsStepKeepFirst(results, slide_ids, arrays, i) ==
    LET case_id == CaseIdOf(slide_ids[i + 1]) IN
    IF \E j \in 1..Len(results) : results[j].key = case_id
    THEN results
    ELSE DictSet(results, case_id,
                 [time |-> At(arrays.all_event_times, i),
                  risk |-> At(arrays.all_risk_scores, i),
                  censorship |-> At(arrays.all_censorships, i),
                  clinical |-> At(arrays.all_clinical_data, i),
                  logits |-> At(arrays.all_logits, i)])

\* Lines 592-599: the body of the loop over i.
ResultsStep(results, slide_ids, arrays, i) ==
    LET slide_id == slide_ids[i + 1]
        case_id == CaseIdOf(slide_id)
    IN DictSet(results, case_id,
               [time |-> At(arrays.all_event_times, i),
                risk |-> At(arrays.all_risk_scores, i),
                censorship |-> At(arrays.all_censorships, i),
                clinical |-> At(arrays.all_clinical_data, i),
                logits |-> At(arrays.all_logits, i)])

\* Lines 590-599.
RECURSIVE ResultsLoop(_, _, _, _, _)
ResultsLoop(results, slide_ids, arrays, i, n) ==
    IF i >= n THEN results
    ELSE ResultsLoop(ResultsStep(results, slide_ids, arrays, i), slide_ids, arrays, i + 1, n)

\* Lines 583-603: the lists are concatenated, patient_results is built and
\* _calculate_metrics is called; what it raises leaves _summary.
SummaryEnd ==
    /\ spc = "loop"
    /\ count = Len(s_cfg.slide_ids)
    /\ LET arrays == [all_risk_scores |-> NpConcatenate(s_arrays.all_risk_scores),
                      all_risk_by_bin_scores |-> NpConcatenate(s_arrays.all_risk_by_bin_scores),
                      all_censorships |-> NpConcatenate(s_arrays.all_censorships),
                      all_event_times |-> NpConcatenate(s_arrays.all_event_times),
                      all_clinical_data |-> s_arrays.all_clinical_data,
                      all_logits |-> NpConcatenate(s_arrays.all_logits),
                      all_slide_ids |-> s_arrays.all_slide_ids]
       IN /\ s_arrays' = arrays
          /\ patient_results' = ResultsLoop(<<>>, s_cfg.slide_ids, arrays, 0, Len(arrays.all_slide_ids))
    /\ \/ /\ spc' = "returned"
          /\ s_out' = [raised |-> FALSE, exc |-> NoExc]
       \/ /\ spc' = "raised"
          /\ s_out' = [raised |-> TRUE, exc |-> [type |-> "_calculate_metrics", args |-> <<>>]]
    /\ UNCHANGED <<s_cfg, count, s_calls, s_samples>>
    /\ UNCHANGED nonSumVars

SummaryNext == SummarySample \/ SummaryEnd


\* ------------------------------------------------------------------------
\* The concordance index of given arrays (lines 415 and 457)
\* ------------------------------------------------------------------------
\* The samples in the order of their event times, ties allowed.
SortedTimes(n) ==
    {t \in [1..n -> 1..n] : \A i \in 1..(n - 1) : t[i] <= t[i + 1]}

\* Risk scores without ties: the ranks 1..n in some order.
RankedRisks(n) ==
    {[i \in 1..n |-> Num(r[i])] : r \in {q \in [1..n -> 1..n] : \A i, j \in 1..n : i # j => q[i] # q[j]}}

CIndexInit ==
    /\ cpc = "call"
    /\ ci_in \in UNION {[cens : [1..n -> CensVals], time : SortedTimes(n), risk : RankedRisks(n)] :
                        n \in 2..MaxK}
    /\ ci_out = NoCIndex

CIndexIdle ==
    /\ cpc = "idle"
    /\ ci_in = NoFiltered
    /\ ci_out = NoCIndex

\* c_index = concordance_index_censored((1-all_censorships).astype(bool),
\*                                      all_event_times, all_risk_scores, tied_tol=1e-08)[0]
CIndexCall ==
    /\ cpc = "call"
    /\ ci_out' = ConcordanceIndexCensored(EventIndicator(ci_in.cens), ci_in.time, ci_in.risk)
    /\ cpc' = IF ci_out'.raised THEN "raised" ELSE "returned"
    /\ UNCHANGED ci_in
    /\ UNCHANGED nonCIndexVars

\* ------------------------------------------------------------------------
\* Specifications
\* ------------------------------------------------------------------------
\* One call of _step.
Init ==
    /\ StepInit
    /\ MetricIdle
    /\ UnpackIdle
    /\ TrainIdle
    /\ SummaryIdle
    /\ CIndexIdle

Next == StepNext

Spec == Init /\ [][Next]_vars

\* One call of _calculate_metrics.
InitMetrics ==
    /\ MetricInit
    /\ StepIdle
    /\ UnpackIdle
    /\ TrainIdle
    /\ SummaryIdle
    /\ CIndexIdle

SpecMetrics == InitMetrics /\ [][MetricNext]_vars

\* One call of _unpack_data.
InitUnpack ==
    /\ UnpackInit
    /\ StepIdle
    /\ MetricIdle
    /\ TrainIdle
    /\ SummaryIdle
    /\ CIndexIdle

SpecUnpack == InitUnpack /\ [][Unpack]_vars

\* One call of _train_loop_survival, or one call of _summary.
InitLoops ==
    /\ \/ TrainInit /\ SummaryIdle
       \/ TrainIdle /\ SummaryInit
    /\ StepIdle
    /\ MetricIdle
    /\ UnpackIdle
    /\ CIndexIdle

NextLoops == TrainBatch \/ TrainEnd \/ SummarySample \/ SummaryEnd

SpecLoops == InitLoops /\ [][NextLoops]_vars

\* One call of concordance_index_censored as lines 415 and 457 make it.
InitCIndex ==
    /\ CIndexInit
    /\ StepIdle
    /\ MetricIdle
    /\ UnpackIdle
    /\ TrainIdle
    /\ SummaryIdle

SpecCIndex == InitCIndex /\ [][CIndexCall]_vars

\* ------------------------------------------------------------------------
\* Properties of _step
\* ------------------------------------------------------------------------
Max2(a, b) == IF a >= b THEN a ELSE b

RECURSIVE MaxOver(_, _)
MaxOver(base, h) ==
    IF h = <<>> THEN base
    ELSE Max2(MaxOver(base, SubSeq(h, 1, Len(h) - 1)), h[Len(h)].c)

IsPrefix(s, t) == Len(s) <= Len(t) /\ s = SubSeq(t, 1, Len(s))

\* Some epoch of this call updated the best.
SomeUpdate == \E i \in 1..Len(hist) : hist[i].c >= hist[i].before

\* The parameters the model had when epoch e was validated.
ParamsOfEpoch(e) == hist[e + 1].params

InvC2 ==
    /\ max_cindex = MaxOver(entry_max_cindex, hist)
    /\ SomeUpdate =>
          /\ max_cindex_epoch + 1 \in 1..Len(hist)
          /\ best_file = FileOf(ParamsOfEpoch(max_cindex_epoch))
          /\ results_file = PatientResults(ParamsOfEpoch(max_cindex_epoch), miss)

ActC2 ==
    /\ max_cindex' >= max_cindex
    /\ (pc = "loop" /\ epoch' = epoch + 1) =>
          IF val'.val_cindex >= max_cindex
          THEN /\ max_cindex' = val'.val_cindex
               /\ max_cindex_epoch' = epoch
               /\ best_file' = FileOf(model')
               /\ results_file' = results_dict'
          ELSE UNCHANGED <<max_cindex, max_cindex_epoch, best_file, results_file>>

\* C2: after every epoch args.max_cindex is the maximum of its entry value
\* and the validation c-indexes so far and never decreases; an epoch
\* replaces the best (max_cindex, max_cindex_epoch, best checkpoint,
\* persisted results) exactly when its c-index is >= the current max_cindex,
\* ties included; once an epoch has updated, the persisted checkpoint and
\* results are those of epoch args.max_cindex_epoch.
ThmC2 == []InvC2 /\ [][ActC2]_vars

\* A later epoch tied with an earlier best and replaced it.
WitC2 ==
    /\ Len(hist) >= 2
    /\ hist[1].c >= hist[1].before
    /\ hist[2].c = hist[1].c
    /\ max_cindex_epoch = 1
    /\ best_file = FileOf(hist[2].params)

PostEvent(ev, p) == [ev |-> ev, params |-> p, miss |-> NoMiss]

\* C3 as stated: after the loop the final checkpoint is written, the best
\* checkpoint is reloaded and the Evaluation Step runs exactly once, on the
\* best-checkpoint parameters, and no other Evaluation Step runs.
ClaimC3 ==
    pc = "done" =>
        post = << PostEvent("save_final", final_file.content),
                  PostEvent("load_best", best_file.content),
                  PostEvent("summary", best_file.content) >>

ExpectedPost ==
    << PostEvent("save_final", final_file.content),
       PostEvent("summary", final_file.content),
       PostEvent("load_best", best_file.content),
       PostEvent("summary", best_file.content) >>

\* C3 (amended): after the loop, in this order: the final checkpoint is
\* written whatever the validation scores were, the Evaluation Step runs on
\* the parameters just saved, the best checkpoint is reloaded, and the
\* Evaluation Step runs once more on the reloaded parameters; a call that
\* returns has run exactly these two Evaluation Steps after the loop.
ThmC3 ==
    /\ IsPrefix(post, ExpectedPost)
    /\ pc \in {"eval_final", "load_best", "eval_best", "return", "done"} =>
          /\ final_file = FileOf(Params("this", max_epochs))
          /\ post # <<>>
    /\ pc = "done" => post = ExpectedPost

\* A call returned whose best checkpoint is not the final checkpoint.
WitC3 ==
    /\ pc = "done"
    /\ Len(hist) = 2
    /\ best_file.content # final_file.content

\* C4: the mapping _step returns is the patient-results mapping of the best
\* epoch, the one persisted with the best checkpoint.
ClaimC4 ==
    (pc = "done" /\ SomeUpdate) =>
        /\ ret[1][2] = ParamsOfEpoch(max_cindex_epoch)
        /\ ret[1][2] = results_file[2]

\* C5 as stated: the first element of the returned tuple is args.max_cindex
\* and the other metrics are those of the last-trained parameters when the
\* best epoch is not the last epoch.
ClaimC5 ==
    (pc = "done" /\ SomeUpdate /\ max_cindex_epoch + 1 # Len(hist)) =>
        /\ ret[2][1] = max_cindex
        /\ \A k \in 2..5 : ret[2][k][2] = final_file.content

\* C5 (amended): the first element of the returned tuple is args.max_cindex
\* (the maximum of its entry value and the fold's validation c-indexes); the
\* IPCW-concordance, Brier, integrated Brier and AUC elements (and the loss)
\* are those of the last Evaluation Step, which runs on the parameters
\* reloaded from the best checkpoint, the best epoch's parameters whenever an
\* epoch of the call updated the best, not on the last-trained parameters.
ThmC5 ==
    pc = "done" =>
        /\ ret[2][1] = max_cindex
        /\ max_cindex = MaxOver(entry_max_cindex, hist)
        /\ ret[2][2] = Metric("c_index_ipcw", best_file.content, NoMiss)
        /\ ret[2][3] = Metric("BS", best_file.content, NoMiss)
        /\ ret[2][4] = Metric("IBS", best_file.content, NoMiss)
        /\ ret[2][5] = Metric("iauc", best_file.content, NoMiss)
        /\ ret[2][6] = Metric("total_loss", best_file.content, NoMiss)
        /\ SomeUpdate => best_file.content = ParamsOfEpoch(max_cindex_epoch)

\* A call returned whose best epoch is the first of three.
WitC5 ==
    /\ pc = "done"
    /\ Len(hist) = 3
    /\ SomeUpdate
    /\ max_cindex_epoch = 0
    /\ ret[2][2] = Metric("c_index_ipcw", Params("this", 1), NoMiss)

\* ------------------------------------------------------------------------
\* Properties of _calculate_metrics
\* ------------------------------------------------------------------------
\* C1: whatever the input, _calculate_metrics does not raise and returns
\* five values, with 0 in the place of every step that failed.
ClaimC1 ==
    /\ mpc # "raised"
    /\ mpc = "returned" => Len(m_ret) = 5

NanIndices(a) == {i \in 1..Len(a) : a[i].nan}
KeptIndices(a) == {i \in 1..Len(a) : ~a[i].nan}
RankIn(K, i) == Cardinality({j \in K : j <= i})

\* b is a without the entries at the NaN positions of risk, order kept.
IsNanFiltered(b, a, risk) ==
    /\ Len(b) = Len(a) - Cardinality(NanIndices(risk))
    /\ \A i \in KeptIndices(risk) : b[RankIn(KeptIndices(risk), i)] = a[i]

HasFiltered == which_times /\ mpc \notin {"idle", "times", "filter"}

\* C6: the risk, censorship and event-time arrays every metric computation
\* uses are the entries at the positions whose risk score is not NaN, in the
\* original order, the same positions dropped from all three; each has
\* length n minus the number of NaN risk scores, and no metric is computed
\* before the filtering.
ThmC6 ==
    /\ ~HasFiltered => m_calls = <<>>
    /\ HasFiltered =>
          /\ Len(m_in.risk) = Len(m_in.cens) /\ Len(m_in.cens) = Len(m_in.time)
          /\ IsNanFiltered(f.risk, m_in.risk, m_in.risk)
          /\ IsNanFiltered(f.cens, m_in.cens, m_in.risk)
          /\ IsNanFiltered(f.time, m_in.time, m_in.risk)
          /\ \A i \in 1..Len(f.risk) : ~f.risk[i].nan
    /\ \A k \in 1..Len(m_calls) :
          /\ IsNanFiltered(m_calls[k].cens, m_in.cens, m_in.risk)
          /\ IsNanFiltered(m_calls[k].time, m_in.time, m_in.risk)
          /\ m_calls[k].fn \in {"concordance_index_censored", "concordance_index_ipcw"} =>
                IsNanFiltered(m_calls[k].estimate, m_in.risk, m_in.risk)

\* All metrics were computed for three samples whose middle risk score is
\* NaN and whose neighbours differ in time and censorship.
WitC6 ==
    /\ mpc = "returned"
    /\ Len(m_calls) = 6
    /\ Len(m_in.risk) = 3
    /\ NanIndices(m_in.risk) = {2}
    /\ m_in.time = <<1, 1, 2>>
    /\ m_in.cens = <<0, 1, 1>>
    /\ f.time = <<1, 2>>
    /\ f.cens = <<0, 1>>

\* ------------------------------------------------------------------------
\* Properties of _unpack_data
\* ------------------------------------------------------------------------
\* C10: for a pathways batch of B >= 1 samples with G pathway tensors each,
\* the omics list has G tensors, the g-th has B rows and its row b is the
\* g-th pathway tensor of sample b.
ThmC10 ==
    (upc = "returned" /\ u_format = "pathways") =>
        LET items == At(u_data, 1)
            B == Len(items)
            G == Len(items[1])
        IN /\ Len(u_out.data_omics) = G
           /\ \A g \in 1..G :
                 /\ Len(u_out.data_omics[g]) = B
                 /\ \A b \in 1..B : u_out.data_omics[g][b] = items[b][g]

\* Two samples of two pathway groups that differ in both groups were unpacked.
WitC10 ==
    /\ upc = "returned"
    /\ u_format = "pathways"
    /\ Len(At(u_data, 1)) = 2
    /\ Len(At(u_data, 1)[1]) = 2
    /\ At(u_data, 1)[1] = <<Vec(1, 0), Vec(2, 1)>>
    /\ At(u_data, 1)[2] = <<Vec(1, 1), Vec(2, 0)>>
    /\ u_out.data_omics = << <<Vec(1, 0), Vec(1, 1)>>, <<Vec(2, 1), Vec(2, 0)>> >>

\* ------------------------------------------------------------------------
\* Properties of _train_loop_survival and _summary
\* ------------------------------------------------------------------------
\* The composite loss of the batch just processed, from its parts.
BatchTotal(b) ==
    b.loss_surv + t_cfg.gamma * b.h[3] + b.h[2] + t_cfg.sigma * (b.h[4] + b.h[5])

\* A step of the batch loop that processed a batch.
BatchDone == tpc = "batch" /\ batch_idx' = batch_idx + 1

\* C7 as stated: the total is survival_loss + gamma*proxy_loss + IB_loss +
\* sigma*(MI_loss_1 + MI_loss_2), backward runs on the total divided by the
\* batch size, and both the value added to the running epoch loss and the
\* value in the per-batch log line are the unnormalized total.
ClaimC7 ==
    [][BatchDone =>
          /\ t_batch'.backward = Quot(BatchTotal(t_batch'), t_batch'.B)
          /\ total_loss' = total_loss + BatchTotal(t_batch')
          /\ t_batch'.logged = Format3(Quot(BatchTotal(t_batch'), 1))]_vars

\* C7 (amended): the total is survival_loss + gamma*proxy_loss + IB_loss +
\* sigma*(MI_loss_1 + MI_loss_2); backward runs on the total divided by the
\* batch size; the value added to the running epoch loss is the unnormalized
\* total, while the value written in the per-batch log line is the total
\* divided by the batch size (to three decimals).
ThmC7 ==
    [][BatchDone =>
          /\ t_batch'.backward = Quot(BatchTotal(t_batch'), t_batch'.B)
          /\ total_loss' = total_loss + BatchTotal(t_batch')
          /\ t_batch'.logged = Format3(Quot(BatchTotal(t_batch'), t_batch'.B))
          /\ t_lines' = t_lines + 1
          /\ opt_steps' = opt_steps + 1]_vars

\* Two batches were trained, the second of two samples with every loss term
\* present and a weight gamma that differs from sigma.
WitC7 ==
    /\ tpc = "batch"
    /\ batch_idx = 2
    /\ t_batch.B = 2
    /\ t_batch.loss_surv = 1
    /\ t_batch.h = <<"logits", 1, 1, 1, 1>>
    /\ t_cfg.gamma = 2
    /\ t_cfg.sigma = 3
    /\ t_batch.loss_value = 10
    /\ t_batch.logged = 5000
    /\ total_loss >= 10

UnsupportedError(tag) == [type |-> "ValueError", args |-> <<"Unsupported omics type:", tag>>]

\* C8: with an omics-format tag other than gene, groups and pathways the
\* Training Step and the Evaluation Step fail on their first batch with a
\* ValueError carrying the tag, before any model invocation, optimizer step
\* or record accumulation, and the failure is final.
InvC8 ==
    /\ (tpc # "idle" /\ t_cfg.omics_format \notin SupportedFormats) =>
          /\ model_calls = 0 /\ opt_steps = 0 /\ t_arrays = 0 /\ total_loss = 0 /\ batch_idx = 0
          /\ tpc \in {"batch", "raised"}
          /\ tpc = "raised" => t_out = [raised |-> TRUE, exc |-> UnsupportedError(t_cfg.omics_format)]
    /\ (spc # "idle" /\ s_cfg.omics_format \notin SupportedFormats) =>
          /\ s_calls = <<>> /\ s_arrays = NoArrays /\ count = 0 /\ patient_results = <<>>
          /\ spc \in {"loop", "raised"}
          /\ spc = "raised" => s_out = [raised |-> TRUE, exc |-> UnsupportedError(s_cfg.omics_format)]

ActC8 ==
    /\ (tpc = "batch" /\ t_cfg.omics_format \notin SupportedFormats) => tpc' \in {"batch", "raised"}
    /\ (tpc = "batch" /\ t_cfg.omics_format \notin SupportedFormats /\ tpc' = "batch") => UNCHANGED vars
    /\ (spc = "loop" /\ s_cfg.omics_format \notin SupportedFormats /\ spc' = "loop") => UNCHANGED vars
    /\ tpc = "raised" => tpc' = "raised"
    /\ spc = "raised" => spc' = "raised"

ThmC8 == []InvC8 /\ [][ActC8]_vars

\* The Evaluation Step failed on the tag "paths".
WitC8 ==
    /\ spc = "raised"
    /\ s_cfg.omics_format = "paths"
    /\ s_out.exc = UnsupportedError("paths")
    /\ s_calls = <<>>

\* The first n characters of str.
Prefix(str, n) == [i \in 1..(IF Len(str) < n THEN Len(str) ELSE n) |-> str[i]]

\* The last sample, in loader order, whose slide id has the case id.
LastWithCase(case_id) ==
    CHOOSE k \in 1..Len(s_samples) :
        /\ Prefix(s_samples[k].slide_id, 12) = case_id
        /\ \A j \in (k + 1)..Len(s_samples) : Prefix(s_samples[j].slide_id, 12) # case_id

\* C9: after an Evaluation Step over n samples, patient_results has one
\* record per distinct 12-character prefix of the slide ids, and the record
\* of a case id holds the time, risk, censorship, clinical payload and
\* logits of the last sample in loader order whose slide id has that prefix.
ThmC9 ==
    spc = "returned" =>
        /\ Len(s_samples) = Len(s_cfg.slide_ids)
        /\ {patient_results[j].key : j \in 1..Len(patient_results)}
              = {Prefix(s_cfg.slide_ids[k], 12) : k \in 1..Len(s_cfg.slide_ids)}
        /\ Len(patient_results)
              = Cardinality({Prefix(s_cfg.slide_ids[k], 12) : k \in 1..Len(s_cfg.slide_ids)})
        /\ \A j \in 1..Len(patient_results) :
              LET smp == s_samples[LastWithCase(patient_results[j].key)]
                  rec == patient_results[j].value
              IN /\ rec.time = smp.time
                 /\ rec.risk = smp.risk
                 /\ rec.censorship = smp.censorship
                 /\ rec.clinical = smp.clinical
                 /\ rec.logits = smp.logits

\* Three slides were evaluated: two of one case around one of another case
\* that differs from it in the twelfth character only.
WitC9 ==
    /\ spc = "returned"
    /\ Len(s_cfg.slide_ids) = 3
    /\ s_cfg.slide_ids[1] = CasePrefixA \o <<"4", "-", "0", "1", "Z">>
    /\ s_cfg.slide_ids[2] = CasePrefixA \o <<"5", "-", "0", "1", "Z">>
    /\ s_cfg.slide_ids[3] = CasePrefixA \o <<"4", "-", "0", "2", "Z">>
    /\ Len(patient_results) = 2
    /\ patient_results[1].key = CasePrefixA \o <<"4">>
    /\ patient_results[1].value.time = Field("time", 3)

\* ------------------------------------------------------------------------
\* Properties of the concordance index
\* ------------------------------------------------------------------------
\* The event times are distinct and the risk falls as the time grows.
RiskDecreasesWithTime ==
    \A i, j \in 1..Len(ci_in.time) :
        i # j => /\ ci_in.time[i] # ci_in.time[j]
                 /\ ci_in.time[i] < ci_in.time[j] => ci_in.risk[i].x > ci_in.risk[j].x

\* C11 as stated: the concordance index the code computes is 0.0 whenever
\* the risk scores are strictly decreasing in event time.
ClaimC11 ==
    (cpc = "returned" /\ RiskDecreasesWithTime) => (~ci_out.nan /\ ci_out.num = 0)

\* C11 (amended): the concordance index the code computes is 1.0 whenever
\* the event times are distinct, the risk scores are strictly decreasing in
\* event time and the call returns (some event has a later sample).
ThmC11 ==
    (cpc = "returned" /\ RiskDecreasesWithTime) =>
        (~ci_out.nan /\ ci_out.num = ci_out.den /\ ci_out.den > 0)

\* Times 10, 20, 30, 40 (as ranks), censorship [0,0,1,0], risks [4,3,2,1]:
\* five comparable pairs, all concordant.
WitC11 ==
    /\ cpc = "returned"
    /\ ci_in.time = <<1, 2, 3, 4>>
    /\ ci_in.cens = <<0, 0, 1, 0>>
    /\ ci_in.risk = <<Num(4), Num(3), Num(2), Num(1)>>
    /\ ci_out = [raised |-> FALSE, nan |-> FALSE, num |-> 10, den |-> 10]

\* ------------------------------------------------------------------------
\* Further properties of _step and _calculate_metrics
\* ------------------------------------------------------------------------
\* C12: whenever _step gets past the epoch loop, the best checkpoint it
\* reloads was written by an epoch of this call: some epoch had
\* val_cindex >= args.max_cindex, whatever max_epochs and the entry value of
\* args.max_cindex are.
ClaimC12 ==
    pc \in {"load_best", "eval_best", "return", "done"} =>
        /\ SomeUpdate
        /\ best_file = FileOf(ParamsOfEpoch(max_cindex_epoch))

\* C13: every Evaluation Step _step runs, in the epoch loop and after it, is
\* invoked with args.miss, so the returned best concordance and the other
\* returned metrics are measured under the same ablation setting.
ClaimC13 ==
    /\ \A e \in evals : e.m = miss
    /\ \A i \in 1..Len(post) : post[i].ev = "summary" => post[i].miss = miss
    /\ pc = "done" => \A k \in 2..6 : ret[2][k][3] = miss

IsEstimateCall(call) ==
    call.fn \in {"brier_score", "integrated_brier_score", "cumulative_dynamic_auc"}

\* C14: the per-bin survival array given to the Brier score, the integrated
\* Brier score and the dynamic AUC has one row per sample of the filtered
\* survival_test, row i belonging to the sample of entry i of the filtered
\* censorship and time arrays, NaN risk scores or not.
ClaimC14 ==
    \A k \in 1..Len(m_calls) :
        IsEstimateCall(m_calls[k]) =>
            /\ Len(m_calls[k].estimate) = Len(m_calls[k].time)
            /\ IsNanFiltered(m_calls[k].estimate, m_in.by_bin, m_in.risk)

====
